---- MODULE Spec2Model ----
(***************************************************************************)
(* Integer-only quantized elementwise multiply (quantization_computation   *)
(* notebook, function multiply).                                           *)
(*                                                                         *)
(* Numbers.  TLC integers are 32-bit, so the 64-bit product of the         *)
(* multiply-high step is carried in three signed limbs; nothing in this    *)
(* module ever forms 2^31.                                                 *)
(*                                                                         *)
(* Scales.  A tensor scale is the dyadic rational num * 2^exp with a small *)
(* numerator.  For these values the float64 product of two scales is       *)
(* exact and the float64 quotient is correctly rounded at a distance of    *)
(* more than 2^-22 from any integer boundary of mantissa * 2^31, so the    *)
(* truncating cast of the code yields the floor of the exact rational.     *)
(* An output scale of zero is left out: the division then raises or        *)
(* yields inf/nan depending on the scalar type held by the Tensor.         *)
(***************************************************************************)
EXTENDS Integers, Sequences, FiniteSets, TLC

VARIABLES tensor1, tensor2, output_tensor, datatype,
          multiplier, shift, i, pending, locals, pc, outcome, output0, probe

vars == <<tensor1, tensor2, output_tensor, datatype,
          multiplier, shift, i, pending, locals, pc, outcome, output0, probe>>

kernelVars == <<tensor1, tensor2, output_tensor, datatype,
                multiplier, shift, i, pending, locals, pc, outcome, output0>>

(***************************************************************************)
(* Bounds of the model.                                                    *)
(***************************************************************************)
MaxLen == 2
EdgeSpan == 2
MaxShiftK == 5
MaxShiftVal == 40
MaxScaleNum == 5
MaxScaleExp == 1

(***************************************************************************)
(* Fixed-width integers.                                                   *)
(***************************************************************************)
Widths == {16, 32}

RECURSIVE Pow2(_)
Pow2(n) == IF n = 0 THEN 1 ELSE 2 * Pow2(n - 1)

Abs(x) == IF x < 0 THEN -x ELSE x

\* 2^30 for int32, 2^14 for int16: the largest power of two below MaxOf.
HalfTop(N) == Pow2(N - 2)

MaxOf(N) == (HalfTop(N) - 1) + HalfTop(N)

MinOf(N) == (-MaxOf(N)) - 1

\* Narrowing cast of numpy to a signed N-bit integer: the value modulo 2^N,
\* for |x| below 2^30.
Wrap(x, N) ==
  IF N = 32 THEN x
  ELSE LET m == x % 65536 IN IF m >= 32768 THEN m - 65536 ELSE m

Int8 == -128 .. 127


(***************************************************************************)
(* Exact comparison of values beyond 32 bits.  A value is written as a sum *)
(* of products of small factors; two such values below 2^70 in magnitude   *)
(* are equal iff they agree modulo each of five primes near 2^15.          *)
(***************************************************************************)
Moduli == {32749, 32719, 32717, 32713, 32707}

RECURSIVE ProdMod(_, _)
ProdMod(fs, m) ==
  IF fs = <<>> THEN 1 % m
  ELSE ((Head(fs) % m) * ProdMod(Tail(fs), m)) % m

RECURSIVE SumProdMod(_, _)
SumProdMod(terms, m) ==
  IF terms = <<>> THEN 0
  ELSE (ProdMod(Head(terms), m) + SumProdMod(Tail(terms), m)) % m

ExactEq(ls, rs) == \A m \in Moduli : SumProdMod(ls, m) = SumProdMod(rs, m)

\* 2^n as a sequence of factors, none above 2^15.
RECURSIVE PowFactors(_)
PowFactors(n) ==
  IF n <= 15 THEN <<Pow2(n)>> ELSE <<Pow2(15)>> \o PowFactors(n - 15)

(***************************************************************************)
(* saturate_rounding_doubling_multiply(a, b, datatype): the rounded high   *)
(* half of the double-width product, round(a * b / 2^(N-1)) with halves    *)
(* rounded up, clamped to the signed N-bit range.                          *)
(***************************************************************************)
LimbBase(N) == IF N = 32 THEN 32768 ELSE 128

\* a = l2 * B^2 + l1 * B + l0 with 0 <= l0, l1 < B and -2 <= l2 <= 1.
Limbs(a, N) ==
  LET B == LimbBase(N)
  IN  [l0 |-> a % B, l1 |-> (a \div B) % B, l2 |-> (a \div B) \div B]

\* a * b + 2^(N-2) = (u2 * B^2 + u1 * B + u0) * B^2 + d1 * B + d0, so that
\* floor((a * b + 2^(N-2)) / 2^(N-1)) = floor((u2 * B^2 + u1 * B + u0) / 2)
\* and lo is the remainder of that division.
RoundedHigh(a, b, N) ==
  LET B  == LimbBase(N)
      x  == Limbs(a, N)
      y  == Limbs(b, N)
      c0 == x.l0 * y.l0
      c1 == x.l0 * y.l1 + x.l1 * y.l0
      c2 == x.l0 * y.l2 + x.l1 * y.l1 + x.l2 * y.l0
      c3 == x.l1 * y.l2 + x.l2 * y.l1
      c4 == x.l2 * y.l2
      t1 == c1 + (c0 \div B)
      t2 == c2 + 1 + (t1 \div B)
      t3 == c3 + (t2 \div B)
  IN  [u2 |-> c4 + (t3 \div B), u1 |-> t3 % B, u0 |-> t2 % B,
       lo |-> (t2 % 2) * (B * B) + (t1 % B) * B + (c0 % B)]

HighValue(h, N) ==
  LET B == LimbBase(N)
  IN  h.u2 * ((B * B) \div 2) + h.u1 * (B \div 2) + (h.u0 \div 2)

\* wrapping variant: the overflowing result is not saturated.
wrapping_rounding_doubling_multiply(a, b, N) ==
  LET h == RoundedHigh(a, b, N)
  IN  IF h.u2 >= 4 THEN MinOf(N)
      ELSE IF h.u2 < -4 THEN MaxOf(N)
      ELSE HighValue(h, N)

saturate_rounding_doubling_multiply(a, b, N) ==
  LET h == RoundedHigh(a, b, N)
  IN  IF h.u2 >= 4 THEN MaxOf(N)
      ELSE IF h.u2 < -4 THEN MinOf(N)
      ELSE HighValue(h, N)

(***************************************************************************)
(* apply_shift(value, shift): left shift for shift >= 0; for shift < 0 a   *)
(* right shift by -shift that adds the bias 2^(-shift-1) to the magnitude  *)
(* before shifting, so that halves round away from zero for both signs.    *)
(***************************************************************************)
\* biased variant: the bias is added to the signed value and the shift is
\* arithmetic, which rounds halves towards plus infinity.
apply_shift_floor(value, sh) ==
  IF sh >= 0 THEN value * Pow2(sh)
  ELSE (value + Pow2((-sh) - 1)) \div Pow2(-sh)

apply_shift(value, sh) ==
  IF sh >= 0 THEN value * Pow2(sh)
  ELSE IF value >= 0 THEN (value + Pow2((-sh) - 1)) \div Pow2(-sh)
  ELSE -(((-value) + Pow2((-sh) - 1)) \div Pow2(-sh))

(***************************************************************************)
(* Tensor: value buffer, scale and zero point.  Scale [num, exp] stands    *)
(* for num * 2^exp.                                                        *)
(***************************************************************************)
Tensor(value, scale, zero_point) ==
  [value |-> value, scale |-> scale, zero_point |-> zero_point]

\* real_scale = tensor1.scale * tensor2.scale / output_tensor.scale, kept as
\* the exact rational (p / q) * 2^e with q > 0.
RealScale(t1, t2, to) ==
  [p |-> t1.scale.num * t2.scale.num,
   q |-> to.scale.num,
   e |-> (t1.scale.exp + t2.scale.exp) - to.scale.exp]

\* np.frexp of the positive rational mn / md: mantissa mn / md in [0.5, 1)
\* and the exponent.
RECURSIVE Normalize(_, _, _)
Normalize(mn, md, ex) ==
  IF mn >= md THEN Normalize(mn, 2 * md, ex + 1)
  ELSE IF 2 * mn < md THEN Normalize(2 * mn, md, ex - 1)
  ELSE [mn |-> mn, md |-> md, exp |-> ex]

\* np.frexp(real_scale): (0.0, 0) for zero, the sign carried by the mantissa.
Frexp(rs) ==
  IF rs.p = 0 THEN [sign |-> 0, mn |-> 0, md |-> 1, exp |-> 0]
  ELSE LET n == Normalize(Abs(rs.p), rs.q, rs.e)
       IN  [sign |-> IF rs.p < 0 THEN -1 ELSE 1,
            mn |-> n.mn, md |-> n.md, exp |-> n.exp]

\* floor(mn * 2^bits / md) and its remainder, for 0 <= mn < md.
RECURSIVE FloorBits(_, _, _)
FloorBits(mn, md, bits) ==
  IF bits = 0 THEN [q |-> 0, r |-> mn]
  ELSE LET prev == FloorBits(mn, md, bits - 1)
           d    == 2 * prev.r
       IN  IF d >= md THEN [q |-> 2 * prev.q + 1, r |-> d - md]
           ELSE [q |-> 2 * prev.q, r |-> d]

\* variant with one bit less.
MultiplierShiftShort(N) == N - 2

MultiplierShift(N) == N - 1

\* rounding variant: round-to-nearest of mantissa * 2^(N-1); a result of
\* 2^(N-1) is halved and the exponent incremented.
RoundMultiplier(fr, N) ==
  LET f  == FloorBits(fr.mn, fr.md, MultiplierShift(N))
      up == 2 * f.r >= fr.md
  IN  IF fr.sign = 0 THEN [multiplier |-> 0, shift |-> fr.exp]
      ELSE IF up /\ f.q = MaxOf(N)
           THEN [multiplier |-> fr.sign * HalfTop(N), shift |-> fr.exp + 1]
      ELSE [multiplier |-> fr.sign * (f.q + (IF up THEN 1 ELSE 0)),
            shift |-> fr.exp]

\* datatype(multipler_float * (2 ** multiplier_shift)): the cast truncates
\* towards zero; shift is the exponent of frexp.
CastMultiplier(fr, N) ==
  [multiplier |-> fr.sign * FloorBits(fr.mn, fr.md, MultiplierShift(N)).q,
   shift |-> fr.exp]

\* variant without the final min/max.
NoClamp8(x) == x

Clamp8(x) == IF x < -128 THEN -128 ELSE IF x > 127 THEN 127 ELSE x

\* temp = datatype(lhs_value * rhs_value)
Temp(lhs_value, rhs_value, N) == Wrap(lhs_value * rhs_value, N)

\* The locals of one pass through the loop body for the 1-based index idx.
LoopBody(t1, t2, to, N, mult, sh, idx) ==
  LET lhs_value == Wrap(t1.value[idx], N) - t1.zero_point
      rhs_value == Wrap(t2.value[idx], N) - t2.zero_point
      temp      == Temp(lhs_value, rhs_value, N)
      product   == saturate_rounding_doubling_multiply(temp, mult, N)
      output    == apply_shift(product, sh) + to.zero_point
  IN  [idx |-> idx, lhs_value |-> lhs_value, rhs_value |-> rhs_value,
       temp |-> temp, product |-> product, output |-> output,
       stored |-> Clamp8(output)]

\* variant that overwrites the whole buffer.
StoreAll(value, idx, x) == [j \in DOMAIN value |-> x]

\* output_tensor.value.ravel()[i] = output
Store(value, idx, x) == [value EXCEPT ![idx] = x]

NoLocals == [idx |-> 0]

NoProbe == [fn |-> "none"]

(***************************************************************************)
(* multiply(tensor1, tensor2, output_tensor, datatype)                     *)
(***************************************************************************)
\* Lines 143-151 for int32 and int16.
Decompose ==
  /\ pc = "start"
  /\ datatype \in Widths
  /\ LET ms == CastMultiplier(Frexp(RealScale(tensor1, tensor2, output_tensor)),
                              datatype)
     IN  /\ multiplier' = ms.multiplier
         /\ shift' = ms.shift
  /\ pending' = 1 .. Len(tensor1.value)
  /\ pc' = "loop"
  /\ UNCHANGED <<tensor1, tensor2, output_tensor, datatype, i, locals,
                 outcome, output0, probe>>

\* Line 150: any other datatype.
AssertFalse ==
  /\ pc = "start"
  /\ datatype \notin Widths
  /\ pc' = "done"
  /\ outcome' = "AssertionError"
  /\ UNCHANGED <<tensor1, tensor2, output_tensor, datatype, multiplier,
                 shift, i, pending, locals, output0, probe>>

\* One pass through lines 154-164 for the index idx.
Element(idx) ==
  /\ pc = "loop"
  /\ idx \in pending
  /\ idx <= Len(tensor2.value)
  /\ idx <= Len(output_tensor.value)
  /\ LET b == LoopBody(tensor1, tensor2, output_tensor, datatype,
                       multiplier, shift, idx)
     IN  /\ locals' = b
         /\ output_tensor' =
              [output_tensor EXCEPT !.value = Store(@, idx, b.stored)]
  /\ pending' = pending \ {idx}
  /\ i' = i + 1
  /\ UNCHANGED <<tensor1, tensor2, datatype, multiplier, shift, pc,
                 outcome, output0, probe>>

\* Line 156 or line 164 indexes past the end of a shorter buffer.
ElementIndexError(idx) ==
  /\ pc = "loop"
  /\ idx \in pending
  /\ \/ idx > Len(tensor2.value)
     \/ idx > Len(output_tensor.value)
  /\ locals' = IF idx > Len(tensor2.value) THEN locals
               ELSE LoopBody(tensor1, tensor2, output_tensor, datatype,
                             multiplier, shift, idx)
  /\ pc' = "done"
  /\ outcome' = "IndexError"
  /\ UNCHANGED <<tensor1, tensor2, output_tensor, datatype, multiplier,
                 shift, i, pending, output0, probe>>

\* The loop of line 153 is exhausted.
Return ==
  /\ pc = "loop"
  /\ pending = {}
  /\ pc' = "done"
  /\ outcome' = "ok"
  /\ UNCHANGED <<tensor1, tensor2, output_tensor, datatype, multiplier,
                 shift, i, pending, locals, output0, probe>>

(***************************************************************************)
(* Inputs.                                                                 *)
(***************************************************************************)
SeqsUpTo(S, n) == UNION {[1 .. k -> S] : k \in 0 .. n}

Scale(num, exp) == [num |-> num, exp |-> exp]

\* lhs, rhs and output scale.
ScaleCases ==
  { <<Scale(1, -5), Scale(1, -7), Scale(5, -7)>>,   \* real_scale 1/160
    <<Scale(1, 0), Scale(1, 0), Scale(1, 0)>>,      \* real_scale 1
    <<Scale(3, -3), Scale(1, 0), Scale(5, -2)>>,    \* real_scale 0.3
    <<Scale(1, 2), Scale(1, 3), Scale(5, 0)>>,      \* real_scale 6.4
    <<Scale(0, 0), Scale(1, -7), Scale(5, -7)>>,    \* real_scale 0
    <<Scale(-1, -5), Scale(1, -7), Scale(5, -7)>> } \* real_scale -1/160

LhsValues == {10, 127}
RhsValues == {-3, 127}
LhsZeroPoints == {2, -128}
RhsZeroPoints == {0, -128}
OutZeroPoints == {-36, 127}
StaleValue == 5
Datatypes == {8, 16, 32}

KernelIdle ==
  /\ multiplier = 0
  /\ shift = 0
  /\ i = 0
  /\ pending = {}
  /\ locals = NoLocals
  /\ pc = "start"
  /\ outcome = "running"
  /\ output0 = output_tensor.value

Init ==
  /\ \E sc \in ScaleCases :
     \E v1 \in SeqsUpTo(LhsValues, MaxLen), v2 \in SeqsUpTo(RhsValues, MaxLen) :
     \E n \in 0 .. MaxLen :
     \E z1 \in LhsZeroPoints, z2 \in RhsZeroPoints, zo \in OutZeroPoints :
       /\ tensor1 = Tensor(v1, sc[1], z1)
       /\ tensor2 = Tensor(v2, sc[2], z2)
       /\ output_tensor = Tensor([j \in 1 .. n |-> StaleValue], sc[3], zo)
  /\ datatype \in Datatypes
  /\ KernelIdle
  /\ probe = NoProbe

\* The loop of the code visits the indices in increasing order.
Next ==
  \/ Decompose
  \/ AssertFalse
  \/ Element(i + 1)
  \/ ElementIndexError(i + 1)
  \/ Return

Spec == Init /\ [][Next]_vars

\* The same loop body with the indices taken in any order.
NextAnyOrder ==
  \/ Decompose
  \/ \E idx \in pending : Element(idx)
  \/ \E idx \in pending : ElementIndexError(idx)
  \/ Return

InitAnyOrder == Init /\ datatype \in Widths

SpecAnyOrder == InitAnyOrder /\ [][NextAnyOrder]_vars

(***************************************************************************)
(* Decomposition of the scale alone: multiply on empty tensors, over a     *)
(* wider set of scales.  65535 * 2^-16 has a mantissa within 2^-16 of 1.   *)
(***************************************************************************)
ScaleNums == 1 .. MaxScaleNum

ScaleExps == (-MaxScaleExp) .. MaxScaleExp

InitScale ==
  /\ \E n1 \in ScaleNums \cup {65535}, e1 \in ScaleExps \cup {-16} :
     \E n2 \in ScaleNums, e2 \in ScaleExps :
     \E n3 \in ScaleNums, e3 \in ScaleExps :
       /\ tensor1 = Tensor(<<>>, Scale(n1, e1), 0)
       /\ tensor2 = Tensor(<<>>, Scale(n2, e2), 0)
       /\ output_tensor = Tensor(<<>>, Scale(n3, e3), 0)
  /\ datatype \in Widths
  /\ KernelIdle
  /\ probe = NoProbe

NextScale == Decompose \/ Return

SpecScale == InitScale /\ [][NextScale]_vars

(***************************************************************************)
(* The two helpers on their own.                                           *)
(***************************************************************************)
ProbeIdle ==
  /\ tensor1 = Tensor(<<>>, Scale(1, 0), 0)
  /\ tensor2 = Tensor(<<>>, Scale(1, 0), 0)
  /\ output_tensor = Tensor(<<>>, Scale(1, 0), 0)
  /\ datatype = 32
  /\ KernelIdle

EdgeSamples(N) ==
  UNION { {MinOf(N) + d, MaxOf(N) - d, d, -d,
           HalfTop(N) + d, HalfTop(N) - d, d - HalfTop(N)} :
          d \in 0 .. EdgeSpan }

InitMulHigh ==
  /\ ProbeIdle
  /\ \E N \in Widths : \E a \in EdgeSamples(N), b \in EdgeSamples(N) :
       probe = [fn |-> "mulhigh", a |-> a, b |-> b, N |-> N,
                done |-> FALSE, result |-> 0]

MulHighCall ==
  /\ probe.fn = "mulhigh"
  /\ ~probe.done
  /\ probe' = [probe EXCEPT !.done = TRUE,
                 !.result = saturate_rounding_doubling_multiply(
                              probe.a, probe.b, probe.N)]
  /\ UNCHANGED kernelVars

NextMulHigh == MulHighCall

SpecMulHigh == InitMulHigh /\ [][NextMulHigh]_vars

InitShift ==
  /\ ProbeIdle
  /\ \E k \in 1 .. MaxShiftK : \E v \in 0 .. MaxShiftVal :
       probe = [fn |-> "shift", value |-> v, k |-> k,
                done |-> FALSE, result |-> 0, mirrored |-> 0]

\* apply_shift(value, -k) and apply_shift(-value, -k).
ShiftCall ==
  /\ probe.fn = "shift"
  /\ ~probe.done
  /\ probe' = [probe EXCEPT !.done = TRUE,
                 !.result = apply_shift(probe.value, -probe.k),
                 !.mirrored = apply_shift(-probe.value, -probe.k)]
  /\ UNCHANGED kernelVars

NextShift == ShiftCall

SpecShift == InitShift /\ [][NextShift]_vars

(***************************************************************************)
(* Properties.                                                             *)
(***************************************************************************)
OutValue == output_tensor.value

real_scale == RealScale(tensor1, tensor2, output_tensor)

ShapesMatch ==
  /\ Len(tensor1.value) = Len(tensor2.value)
  /\ Len(tensor1.value) = Len(OutValue)

\* The element of locals.idx has been stored by the last pass of the loop.
Stored == locals.idx \in DOMAIN OutValue

\* C1: after multiply returns normally every element of output.values is in
\* [-128, 127]; a result outside that range is stored as the nearest bound,
\* and with matching shapes and a working width of 16 or 32 the call always
\* returns normally.
C1_OutputInInt8 ==
  /\ (pc = "done" /\ outcome = "ok") =>
       \A j \in DOMAIN OutValue : OutValue[j] \in Int8
  /\ Stored =>
       /\ locals.output > 127 => OutValue[locals.idx] = 127
       /\ locals.output < -128 => OutValue[locals.idx] = -128
       /\ locals.output \in Int8 => OutValue[locals.idx] = locals.output
  /\ (pc = "done" /\ ShapesMatch /\ datatype \in Widths) => outcome = "ok"

C1_Witness ==
  /\ pc = "done"
  /\ outcome = "ok"
  /\ datatype = 16
  /\ real_scale.p > 0
  /\ Stored
  /\ locals.output > 127
  /\ OutValue[locals.idx] = 127

\* C2: when the three element counts are not all the same, multiply ends in
\* ShapeMismatchError before any per-element step and output.values is
\* unchanged.
C2_ShapeMismatchRejected ==
  (pc = "done" /\ datatype \in Widths /\ ~ShapesMatch) =>
     /\ outcome = "ShapeMismatchError"
     /\ i = 0
     /\ OutValue = output0

\* C3: when real_scale is zero or negative, multiply ends in DomainError
\* without a per-element step, output.values is unchanged and no multiplier
\* is produced.
C3_DomainErrorOnBadScale ==
  (pc = "done" /\ datatype \in Widths /\ real_scale.p <= 0) =>
     /\ outcome = "DomainError"
     /\ i = 0
     /\ OutValue = output0

\* The reference of C4 as a fraction num / den: the exact value of
\* lv * rv * real_scale + output.zero_point, clamped to [-128, 127].
Reference(idx) ==
  LET rs  == real_scale
      t   == (tensor1.value[idx] - tensor1.zero_point)
               * (tensor2.value[idx] - tensor2.zero_point)
      den == IF rs.e >= 0 THEN rs.q ELSE rs.q * Pow2(-rs.e)
      raw == (IF rs.e >= 0 THEN t * rs.p * Pow2(rs.e) ELSE t * rs.p)
               + output_tensor.zero_point * den
  IN  [num |-> IF raw > 127 * den THEN 127 * den
               ELSE IF raw < (-128) * den THEN (-128) * den
               ELSE raw,
       den |-> den]

WithinOne(x, ref) == Abs(x * ref.den - ref.num) <= ref.den

AtMostOne(rs) ==
  IF rs.e >= 0 THEN rs.p * Pow2(rs.e) <= rs.q ELSE rs.p <= rs.q * Pow2(-rs.e)

\* C4 as stated: at working width 32 and for every positive real_scale the
\* stored element differs by at most 1 from the clamped exact reference.
C4_WithinOneAnyScale ==
  (datatype = 32 /\ Stored /\ real_scale.p > 0) =>
     WithinOne(OutValue[locals.idx], Reference(locals.idx))

\* C4 amended: at working width 32 and for every positive real_scale not
\* above 1 the stored element differs by at most 1 from the clamped exact
\* reference.
C4_WithinOneUpToUnitScale ==
  (datatype = 32 /\ Stored /\ real_scale.p > 0 /\ AtMostOne(real_scale)) =>
     WithinOne(OutValue[locals.idx], Reference(locals.idx))

C4_Witness ==
  /\ datatype = 32
  /\ pc = "done"
  /\ outcome = "ok"
  /\ Stored
  /\ real_scale = [p |-> 1, q |-> 5, e |-> -5]
  /\ locals.temp = -24
  /\ output_tensor.zero_point = -36
  /\ OutValue[locals.idx] = -36

Decomposed == pc # "start" /\ datatype \in Widths /\ real_scale.p > 0

MantissaOk(fr, rs, sh) ==
  /\ fr.md <= 2 * fr.mn
  /\ fr.mn < fr.md
  /\ IF rs.e >= sh
     THEN ExactEq(<< <<rs.p, fr.md>> \o PowFactors(rs.e - sh) >>,
                  << <<fr.mn, rs.q>> >>)
     ELSE ExactEq(<< <<rs.p, fr.md>> >>,
                  << <<fr.mn, rs.q>> \o PowFactors(sh - rs.e) >>)

MultiplierInRange ==
  /\ multiplier >= HalfTop(datatype)
  /\ multiplier <= MaxOf(datatype)

\* C5 as stated: mantissa in [0.5, 1) with real_scale = mantissa * 2^shift,
\* multiplier = round(mantissa * 2^(N-1)) within [2^(N-2), 2^(N-1) - 1], a
\* rounded value of 2^(N-1) being halved with shift incremented.
C5_RoundedMultiplier ==
  Decomposed =>
    LET fr == Frexp(real_scale)
        rm == RoundMultiplier(fr, datatype)
    IN  /\ MantissaOk(fr, real_scale, fr.exp)
        /\ multiplier = rm.multiplier
        /\ shift = rm.shift
        /\ MultiplierInRange

\* C5 amended: mantissa in [0.5, 1) with real_scale = mantissa * 2^shift,
\* multiplier = floor(mantissa * 2^(N-1)) within [2^(N-2), 2^(N-1) - 1]; the
\* truncation never reaches 2^(N-1), so nothing is halved and shift is the
\* exponent of the mantissa.
C5_TruncatedMultiplier ==
  Decomposed =>
    \E mn \in {Frexp(real_scale).mn} : \E md \in {Frexp(real_scale).md} :
    \E r \in {FloorBits(mn, md, datatype - 1).r} :
      /\ MantissaOk([mn |-> mn, md |-> md], real_scale, shift)
      /\ 0 <= r
      /\ r < md
      /\ ExactEq(<< <<mn>> \o PowFactors(datatype - 1) >>,
                 << <<multiplier, md>>, <<r>> >>)
      /\ MultiplierInRange

C5_Witness ==
  /\ pc = "done"
  /\ datatype = 16
  /\ real_scale = [p |-> 65535, q |-> 1, e |-> -16]
  /\ multiplier = 32767
  /\ shift = 0

\* C6: multiplyHigh(a, b, N) is round-half-up(a * b / 2^(N-1)) clamped to
\* the signed N-bit range; the clamp changes the value only for
\* a = b = -2^(N-1), where the unclamped value is 2^(N-1) and the result is
\* 2^(N-1) - 1.
C6_MultiplyHigh ==
  (probe.fn = "mulhigh" /\ probe.done) =>
    LET a == probe.a
        b == probe.b
        N == probe.N
    IN  IF a = MinOf(N) /\ b = MinOf(N)
        THEN /\ probe.result = MaxOf(N)
             /\ ExactEq(<< <<a, b>> >>,
                        << PowFactors(N - 1) \o PowFactors(N - 1) >>)
        ELSE /\ probe.result >= MinOf(N)
             /\ probe.result <= MaxOf(N)
             /\ \E lo \in {RoundedHigh(a, b, N).lo} :
                  /\ 0 <= lo
                  /\ lo <= MaxOf(N)
                  /\ ExactEq(<< <<a, b>>, PowFactors(N - 2) >>,
                             << <<probe.result>> \o PowFactors(N - 1),
                                <<lo>> >>)

C6_Witness ==
  /\ probe.fn = "mulhigh"
  /\ probe.done
  /\ probe.N = 32
  /\ probe.a = MinOf(32)
  /\ probe.b = MinOf(32)
  /\ probe.result = MaxOf(32)

C8_Frame ==
  [][ /\ tensor1' = tensor1
      /\ tensor2' = tensor2
      /\ output_tensor'.scale = output_tensor.scale
      /\ output_tensor'.zero_point = output_tensor.zero_point
      /\ DOMAIN output_tensor'.value = DOMAIN OutValue
      /\ pc = "loop" =>
           /\ multiplier' = multiplier
           /\ shift' = shift
           /\ \A j \in DOMAIN OutValue :
                j # i + 1 => output_tensor'.value[j] = OutValue[j]
    ]_vars

C8_Witness ==
  /\ pc = "done"
  /\ outcome = "ok"
  /\ i = 2
  /\ OutValue[1] # output0[1]
  /\ OutValue[2] # output0[2]

\* C9: for working width 16 as for width 32 the temp handed to the
\* multiply-high step is the exact product
\* (lhs.values[i] - lhs.zero_point) * (rhs.values[i] - rhs.zero_point).
C9_TempExact ==
  locals.idx # 0 =>
    locals.temp = (tensor1.value[locals.idx] - tensor1.zero_point)
                    * (tensor2.value[locals.idx] - tensor2.zero_point)

Expected(idx) ==
  LET ms == CastMultiplier(Frexp(real_scale), datatype)
  IN  LoopBody(tensor1, tensor2, output_tensor, datatype,
               ms.multiplier, ms.shift, idx).stored

\* C10: with matching shapes, whatever the order in which the indices are
\* processed, multiply ends with the same output buffer, a function of the
\* inputs alone and not of the previous contents of the buffer.
C10_OrderIndependent ==
  (pc = "done" /\ ShapesMatch) =>
     /\ outcome = "ok"
     /\ OutValue = [j \in DOMAIN tensor1.value |-> Expected(j)]

C10_Witness ==
  /\ pc = "done"
  /\ outcome = "ok"
  /\ Len(tensor1.value) = 2
  /\ ShapesMatch
  /\ locals.idx = 1
  /\ OutValue[1] # output0[1]
  /\ OutValue[1] # OutValue[2]

====
